---- MODULE Spec2Model ----
(***************************************************************************)
(* A model of the MA-crossover backtester: the simulation loop of          *)
(* Backtester.run, Backtester.calculate_metrics and generate_signals.      *)
(*                                                                         *)
(* Numbers are integers (the tests drive the code with integer prices and  *)
(* integer capital); a quotient the code returns as a float (win_rate,     *)
(* max_drawdown) is kept as an exact fraction [num, den] with den > 0.     *)
(* A series is a sequence; its index is the positions 1..Len, so two       *)
(* series have equal indices exactly when they have equal lengths.         *)
(* The Sharpe ratio (a square root over floats) is not modelled.           *)
(***************************************************************************)
EXTENDS Integers, Sequences, FiniteSets, TLC

\* ------------------------------------------------------------- bounds
\* Loop iterations one Backtester instance processes over all its runs.
MaxTicks == 3
\* Prices are drawn from 1..MaxPrice, initial capital from 1..MaxCapital.
MaxPrice == 2
MaxCapital == 3
\* generate_signals: series of length <= MaxSigLen over 1..MaxMA.
MaxSigLen == 4
MaxMA == 3

\* ------------------------------------------------------ optional values
\* Python's None, and a present value, as sequences of length 0 and 1.
None == <<>>
Some(x) == <<x>>
Get(o) == o[1]

\* NaN (what shift(1) leaves at index 0), and a present number.
NaN == <<>>
IsNaN(x) == x = NaN

\* A fraction num/den, den > 0.
Frac(n, d) == [num |-> n, den |-> d]
FracLess(a, b) == a.num * b.den < b.num * a.den

\* --------------------------------------------------------------- state
VARIABLES
    initial_capital,       \* self.initial_capital
    heap,                  \* the list objects: heap[TradesList] is the content of self.trades
    self_positions,        \* self.positions: None or a series
    self_portfolio_value,  \* self.portfolio_value: None or a series
    pc,                    \* "idle": no call in progress; "run": inside the loop of run
    prices,                \* run's argument
    signals,               \* run's argument
    t,                     \* number of timestamps the loop has processed
    position,              \* run's local: 0 = flat, 1 = long
    cash,                  \* run's local
    shares,                \* run's local
    portfolio_values,      \* run's local list
    positions,             \* run's local list
    result,                \* the dict the last successful run returned (held by the caller), or None
    result_trades_at_return, \* history: the content of result['trades'] when run returned it
    outcome,               \* how the most recent call ended, None while run is in progress
    ticks,                 \* history: loop iterations reserved by the runs so far
    fast_ma,               \* generate_signals' argument
    slow_ma,               \* generate_signals' argument
    signals_out            \* what generate_signals returned or raised, or None

bt_vars == <<initial_capital, heap, self_positions, self_portfolio_value, pc, prices,
             signals, t, position, cash, shares, portfolio_values, positions, result,
             result_trades_at_return, outcome, ticks>>
sig_vars == <<fast_ma, slow_ma, signals_out>>
vars == <<bt_vars, sig_vars>>

\* The one list object the instance ever allocates (self.trades = []); run
\* appends to it in place and never rebinds self.trades.
TradesList == "self.trades"
self_trades == heap[TradesList]

\* ------------------------------------------------------ bounded inputs
RECURSIVE SeqsUpTo(_, _)
SeqsUpTo(S, n) ==
    IF n = 0 THEN {<<>>}
    ELSE LET shorter == SeqsUpTo(S, n - 1)
         IN  shorter \cup {Append(s, x) : s \in {q \in shorter : Len(q) = n - 1}, x \in S}

Prices == 1..MaxPrice
Signals == {-1, 0, 1}
Capitals == 1..MaxCapital
RiskFreeRates == {-1, 0, 1}

\* ------------------------------------------------------- Backtester.run
\* A buy that rounds the share count up instead of down.
BuyShares_ceil(c, price) == (c + price - 1) \div price

BuyShares(c, price) == c \div price

BuyTrade(date, price, sh) ==
    [date |-> date, type |-> "buy", price |-> price, shares |-> sh]

\* A sell logged after shares was reset: the quantity recorded is 0.
SellTrade_after_reset(date, price, sh) ==
    [date |-> date, type |-> "sell", price |-> price, shares |-> 0]

SellTrade(date, price, sh) ==
    [date |-> date, type |-> "sell", price |-> price, shares |-> sh]

\* A valuation that forgets to price the shares.
PortfolioValue_unpriced(c, sh, price) == c + sh

PortfolioValue(c, sh, price) == c + sh * price

\* A loop body whose buy branch forgets to test that the account is Flat.
Tick_buy_in_any_state(acct, date, price, signal) ==
    IF signal = 1
    THEN LET sh == BuyShares(acct.cash, price)
         IN  [position |-> 1,
              cash     |-> acct.cash - sh * price,
              shares   |-> sh,
              trades   |-> Append(acct.trades, BuyTrade(date, price, sh))]
    ELSE IF signal = -1 /\ acct.position = 1
    THEN [position |-> 0,
          cash     |-> acct.cash + acct.shares * price,
          shares   |-> 0,
          trades   |-> Append(acct.trades, SellTrade(date, price, acct.shares))]
    ELSE acct

\* One iteration of the loop's if/elif on the account acct =
\* [position, cash, shares, trades].
Tick(acct, date, price, signal) ==
    IF signal = 1 /\ acct.position = 0
    THEN LET sh == BuyShares(acct.cash, price)
         IN  [position |-> 1,
              cash     |-> acct.cash - sh * price,
              shares   |-> sh,
              trades   |-> Append(acct.trades, BuyTrade(date, price, sh))]
    ELSE IF signal = -1 /\ acct.position = 1
    THEN [position |-> 0,
          cash     |-> acct.cash + acct.shares * price,
          shares   |-> 0,
          trades   |-> Append(acct.trades, SellTrade(date, price, acct.shares))]
    ELSE acct

\* The whole loop of run as a function of its inputs, on a fresh trade log:
\* the account after the last timestamp and the two recorded series.
RECURSIVE RunLoop(_, _, _, _)
RunLoop(st, ps, ss, date) ==
    IF date > Len(ps) THEN st
    ELSE LET acct == Tick(st.acct, date, ps[date], ss[date])
         IN  RunLoop([acct      |-> acct,
                      positions |-> Append(st.positions, acct.position),
                      values    |-> Append(st.values,
                                           PortfolioValue(acct.cash, acct.shares, ps[date]))],
                     ps, ss, date + 1)

RunAll(capital, ps, ss) ==
    RunLoop([acct      |-> [position |-> 0, cash |-> capital, shares |-> 0, trades |-> <<>>],
             positions |-> <<>>,
             values    |-> <<>>], ps, ss, 1)

\* run(prices, signals) with aligned series: the initialisation before the loop.
RunCall(ps, ss) ==
    /\ pc = "idle"
    /\ Len(ps) = Len(ss)
    /\ ticks + Len(ps) <= MaxTicks
    /\ pc' = "run"
    /\ prices' = ps
    /\ signals' = ss
    /\ t' = 0
    /\ position' = 0
    /\ cash' = initial_capital
    /\ shares' = 0
    /\ portfolio_values' = <<>>
    /\ positions' = <<>>
    /\ outcome' = None
    /\ ticks' = ticks + Len(ps)
    /\ UNCHANGED <<initial_capital, heap, self_positions, self_portfolio_value, result,
                   result_trades_at_return, sig_vars>>

\* run(prices, signals) with series of different lengths: raises, touches nothing.
RunMisaligned(ps, ss) ==
    /\ pc = "idle"
    /\ Len(ps) # Len(ss)
    /\ outcome' = Some([op |-> "run", raised |-> "MisalignedSeries"])
    /\ UNCHANGED <<initial_capital, heap, self_positions, self_portfolio_value, pc, prices,
                   signals, t, position, cash, shares, portfolio_values, positions, result,
                   result_trades_at_return, ticks, sig_vars>>

\* One iteration of the loop over prices.items().
RunStep ==
    /\ pc = "run"
    /\ t < Len(prices)
    /\ LET date == t + 1
           price == prices[date]
           signal == signals[date]
           acct == Tick([position |-> position, cash |-> cash, shares |-> shares,
                         trades |-> self_trades], date, price, signal)
       IN  /\ position' = acct.position
           /\ cash' = acct.cash
           /\ shares' = acct.shares
           /\ heap' = [heap EXCEPT ![TradesList] = acct.trades]
           /\ positions' = Append(positions, acct.position)
           /\ portfolio_values' =
                  Append(portfolio_values, PortfolioValue(acct.cash, acct.shares, price))
    /\ t' = t + 1
    /\ UNCHANGED <<initial_capital, self_positions, self_portfolio_value, pc, prices, signals,
                   result, result_trades_at_return, outcome, ticks, sig_vars>>

\* The dict run returns: the two new series, and the instance's own list.
RunResult(values, poss) ==
    [portfolio_value |-> values, positions |-> poss, trades |-> TradesList]

\* The loop is over: store the series on the instance and return the dict.
RunReturn ==
    /\ pc = "run"
    /\ t = Len(prices)
    /\ self_positions' = Some(positions)
    /\ self_portfolio_value' = Some(portfolio_values)
    /\ result' = Some(RunResult(portfolio_values, positions))
    /\ result_trades_at_return' = heap[RunResult(portfolio_values, positions).trades]
    /\ outcome' = Some([op |-> "run", raised |-> "none"])
    /\ pc' = "idle"
    /\ UNCHANGED <<initial_capital, heap, prices, signals, t, position, cash, shares,
                   portfolio_values, positions, ticks, sig_vars>>

\* ------------------------------------------ Backtester.calculate_metrics
RECURSIVE SeqMax(_)
SeqMax(s) ==
    IF Len(s) = 1 THEN s[1]
    ELSE LET m == SeqMax(SubSeq(s, 1, Len(s) - 1))
         IN  IF s[Len(s)] > m THEN s[Len(s)] ELSE m

\* The running minimum (cummin) in place of the running peak.
CumulativeMax_cummin(values) ==
    [i \in 1..Len(values) |-> -SeqMax([j \in 1..i |-> -values[j]])]

\* Series.cummax()
CumulativeMax(values) == [i \in 1..Len(values) |-> SeqMax(SubSeq(values, 1, i))]

\* (portfolio_value - cumulative_max) / cumulative_max, elementwise
Drawdown(values, peak) == [i \in 1..Len(values) |-> Frac(values[i] - peak[i], peak[i])]

RECURSIVE FracMin(_)
FracMin(s) ==
    IF Len(s) = 1 THEN s[1]
    ELSE LET m == FracMin(SubSeq(s, 1, Len(s) - 1))
         IN  IF FracLess(s[Len(s)], m) THEN s[Len(s)] ELSE m

MaxDrawdown(values) == FracMin(Drawdown(values, CumulativeMax(values)))

\* The price difference taken the wrong way round.
Profit_swapped(buy, sell) == (buy.price - sell.price) * buy.shares

Profit(buy, sell) == (sell.price - buy.price) * buy.shares

\* The win-rate loop, for i in range(1, len(trades), 2), from index i on
\* (i is Python's 0-based index of the pair's second trade).
RECURSIVE PairLoop(_, _, _)
PairLoop(trades, i, acc) ==
    IF i >= Len(trades) THEN acc
    ELSE LET buy == trades[i]
             sell == trades[i + 1]
             counted == buy.type = "buy" /\ sell.type = "sell"
             won == counted /\ Profit(buy, sell) > 0
         IN  PairLoop(trades, i + 2,
                      [wins |-> acc.wins + (IF won THEN 1 ELSE 0),
                       total_trades |-> acc.total_trades + (IF counted THEN 1 ELSE 0)])

WinRate(wins, total_trades) ==
    IF total_trades > 0 THEN Frac(wins, total_trades) ELSE Frac(0, 1)

Metrics(values, trades) ==
    LET pairs == PairLoop(trades, 1, [wins |-> 0, total_trades |-> 0])
    IN  [final_value  |-> values[Len(values)],
         max_drawdown |-> MaxDrawdown(values),
         win_rate     |-> WinRate(pairs.wins, pairs.total_trades),
         total_trades |-> pairs.total_trades]

\* Which exception calculate_metrics raises, "none" when it returns.
MetricsRaises(rfr) ==
    IF self_portfolio_value = None \/ self_trades = <<>> THEN "NotReady"
    ELSE IF rfr < 0 THEN "InvalidParameter"
    ELSE IF Get(self_portfolio_value) = <<>> THEN "IndexError"
    ELSE "none"

CalculateMetrics(rfr) ==
    /\ pc = "idle"
    /\ outcome' = Some([op |-> "calculate_metrics",
                        risk_free_rate |-> rfr,
                        raised |-> MetricsRaises(rfr),
                        metrics |-> IF MetricsRaises(rfr) = "none"
                                    THEN Some(Metrics(Get(self_portfolio_value), self_trades))
                                    ELSE None])
    /\ UNCHANGED <<initial_capital, heap, self_positions, self_portfolio_value, pc, prices,
                   signals, t, position, cash, shares, portfolio_values, positions, result,
                   result_trades_at_return, ticks, sig_vars>>

\* ----------------------------------------------------- generate_signals
\* fast_ma - slow_ma
Diff(fast, slow) == [i \in 1..Len(fast) |-> fast[i] - slow[i]]

\* diff.shift(1): NaN at the first index, then the previous value.
Shift1(diff) == [i \in 1..Len(diff) |-> IF i = 1 THEN NaN ELSE Some(diff[i - 1])]

\* Comparisons against a possibly missing number: any comparison with NaN is False.
NanLe(x, c) == ~IsNaN(x) /\ Get(x) <= c
NanGe(x, c) == ~IsNaN(x) /\ Get(x) >= c

\* A buy mask with a strict comparison of the previous difference.
BuyMask_strict(prev_diff, diff) ==
    [i \in 1..Len(diff) |-> ~IsNaN(prev_diff[i]) /\ Get(prev_diff[i]) < 0 /\ diff[i] > 0]

\* (prev_diff <= 0) & (diff > 0)
BuyMask(prev_diff, diff) == [i \in 1..Len(diff) |-> NanLe(prev_diff[i], 0) /\ diff[i] > 0]

\* (prev_diff >= 0) & (diff < 0)
SellMask(prev_diff, diff) == [i \in 1..Len(diff) |-> NanGe(prev_diff[i], 0) /\ diff[i] < 0]

\* signals[mask] = value
Assign(series, mask, value) ==
    [i \in 1..Len(series) |-> IF mask[i] THEN value ELSE series[i]]

\* The body of generate_signals after its alignment checks.
CrossoverSignals(fast, slow) ==
    LET diff == Diff(fast, slow)
        prev_diff == Shift1(diff)
        zeros == [i \in 1..Len(fast) |-> 0]
        bought == Assign(zeros, BuyMask(prev_diff, diff), 1)
    IN  Assign(bought, SellMask(prev_diff, diff), -1)

generate_signals(fast, slow) ==
    IF Len(fast) # Len(slow)
    THEN [raised |-> "MisalignedSeries", signals |-> None]
    ELSE [raised |-> "none", signals |-> Some(CrossoverSignals(fast, slow))]

\* The call generate_signals(fast_ma, slow_ma).
GenerateSignals ==
    /\ signals_out = None
    /\ signals_out' = Some(generate_signals(fast_ma, slow_ma))
    /\ UNCHANGED <<fast_ma, slow_ma, bt_vars>>

\* ------------------------------------------------------- specification
Init ==
    /\ initial_capital \in Capitals
    /\ heap = [l \in {TradesList} |-> <<>>]
    /\ self_positions = None
    /\ self_portfolio_value = None
    /\ pc = "idle"
    /\ prices = <<>>
    /\ signals = <<>>
    /\ t = 0
    /\ position = 0
    /\ cash = 0
    /\ shares = 0
    /\ portfolio_values = <<>>
    /\ positions = <<>>
    /\ result = None
    /\ result_trades_at_return = <<>>
    /\ outcome = None
    /\ ticks = 0
    /\ fast_ma = <<>>
    /\ slow_ma = <<>>
    /\ signals_out = None

Next ==
    \/ \E n \in 0..(MaxTicks - ticks) :
         \E ps \in [1..n -> Prices], ss \in [1..n -> Signals] : RunCall(ps, ss)
    \/ \E ps \in SeqsUpTo(Prices, 1), ss \in SeqsUpTo(Signals, 1) : RunMisaligned(ps, ss)
    \/ RunStep
    \/ RunReturn
    \/ \E rfr \in RiskFreeRates : CalculateMetrics(rfr)

Spec == Init /\ [][Next]_vars

\* generate_signals on every pair of series within the bounds.
MAValues == 1..MaxMA

InitSignals ==
    /\ fast_ma \in SeqsUpTo(MAValues, MaxSigLen)
    /\ slow_ma \in SeqsUpTo(MAValues, MaxSigLen)
    /\ signals_out = None
    /\ initial_capital = 1
    /\ heap = [l \in {TradesList} |-> <<>>]
    /\ self_positions = None
    /\ self_portfolio_value = None
    /\ pc = "idle"
    /\ prices = <<>>
    /\ signals = <<>>
    /\ t = 0
    /\ position = 0
    /\ cash = 0
    /\ shares = 0
    /\ portfolio_values = <<>>
    /\ positions = <<>>
    /\ result = None
    /\ result_trades_at_return = <<>>
    /\ outcome = None
    /\ ticks = 0

NextSignals == GenerateSignals

SpecSignals == InitSignals /\ [][NextSignals]_vars

\* ------------------------------------------------------------ properties
\* A step of the loop of run: the timestamp t + 1 is processed.
LoopStep == pc = "run" /\ pc' = "run" /\ t' = t + 1

\* calculate_metrics was the last call and it returned its dict.
MetricsReturned ==
    /\ outcome # None
    /\ Get(outcome).op = "calculate_metrics"
    /\ Get(outcome).raised = "none"

ReturnedMetrics == Get(Get(outcome).metrics)

\* Buy, Sell, Buy, Sell, ... starting with Buy.
Alternates(trades) ==
    \A k \in 1..Len(trades) : trades[k].type = (IF k % 2 = 1 THEN "buy" ELSE "sell")

\* C1: whenever run has returned, the trade log of the returned result
\* (the log the instance holds) alternates Buy, Sell, ... starting with Buy.
C1_TradeLogAlternates ==
    (pc = "idle" /\ result # None) => Alternates(heap[Get(result).trades])

\* C2: a Buy signal while Flat with cash < price changes nothing (position,
\* recorded position, cash, shares, trade log), and so every Buy trade of the
\* log has a share quantity of at least 1.
C2_InsufficientCashIsNoOp ==
    [][/\ (LoopStep /\ signals[t + 1] = 1 /\ position = 0 /\ cash < prices[t + 1]) =>
              /\ position' = 0
              /\ positions'[t + 1] = 0
              /\ cash' = cash
              /\ shares' = shares
              /\ self_trades' = self_trades
       /\ \A k \in 1..Len(self_trades') :
              self_trades'[k].type = "buy" => self_trades'[k].shares >= 1]_vars

\* The scenario of the tests: capital 100, prices 10 12 14 13 11, signals 0 1 0 -1 0.
ScenarioRun == RunAll(100, <<10, 12, 14, 13, 11>>, <<0, 1, 0, -1, 0>>)

ScenarioHolds ==
    /\ ScenarioRun.positions = <<0, 1, 1, 0, 0>>
    /\ ScenarioRun.values = <<100, 100, 116, 108, 108>>
    /\ ScenarioRun.acct.cash = 108
    /\ ScenarioRun.acct.shares = 0
    /\ ScenarioRun.acct.trades =
           << [date |-> 2, type |-> "buy", price |-> 12, shares |-> 8],
              [date |-> 4, type |-> "sell", price |-> 13, shares |-> 8] >>

\* C3: a Buy signal while Flat with cash >= price buys floor(cash / price)
\* shares, pays shares x price, goes Long and appends one Buy trade; a Sell
\* signal while Long adds shares x price to cash, zeroes shares, goes Flat and
\* appends one Sell trade with the price and the quantity sold; and the
\* scenario of the tests comes out as stated.
C3_BuyAndSellEffects ==
    [][LoopStep =>
           LET price == prices[t + 1]
               signal == signals[t + 1]
           IN  /\ ScenarioHolds
               /\ (signal = 1 /\ position = 0 /\ cash >= price) =>
                      /\ shares' * price <= cash
                      /\ cash < (shares' + 1) * price
                      /\ cash' = cash - shares' * price
                      /\ position' = 1
                      /\ self_trades' =
                             Append(self_trades, [date |-> t + 1, type |-> "buy",
                                                  price |-> price, shares |-> shares'])
               /\ (signal = -1 /\ position = 1) =>
                      /\ cash' = cash + shares * price
                      /\ shares' = 0
                      /\ position' = 0
                      /\ self_trades' =
                             Append(self_trades, [date |-> t + 1, type |-> "sell",
                                                  price |-> price, shares |-> shares])]_vars

\* A run in which a buy with enough cash was followed by a sell of those shares.
C3_Witness ==
    /\ pc = "run"
    /\ Len(self_trades) = 2
    /\ self_trades[1].type = "buy"
    /\ self_trades[1].shares >= 1
    /\ self_trades[2].type = "sell"
    /\ self_trades[2].shares = self_trades[1].shares
    /\ position = 0
    /\ cash > initial_capital

\* C4: the trade log of a returned result stays as it was when run returned it.
C4_ResultTradesImmutable ==
    result # None => heap[Get(result).trades] = result_trades_at_return

\* C5: in the loop, the two recorded series have one entry per processed
\* timestamp, the last being the position and cash + shares x price[t] after
\* the signal at t; the series run stores have one entry per price.
C5_PortfolioValueRecorded ==
    /\ pc = "run" =>
           /\ Len(portfolio_values) = t
           /\ Len(positions) = t
           /\ t >= 1 =>
                  /\ portfolio_values[t] = cash + shares * prices[t]
                  /\ positions[t] = position
    /\ (pc = "idle" /\ outcome # None /\ Get(outcome) = [op |-> "run", raised |-> "none"]) =>
           /\ Len(Get(self_portfolio_value)) = Len(prices)
           /\ Len(Get(self_positions)) = Len(prices)
           /\ Get(self_portfolio_value) = portfolio_values
           /\ Get(self_positions) = positions

\* Shares are held at a price that has moved since the buy.
C5_Witness ==
    /\ pc = "run"
    /\ t >= 2
    /\ shares >= 1
    /\ prices[t] # prices[t - 1]
    /\ portfolio_values[t] # portfolio_values[t - 1]

\* C6: calculate_metrics with a negative risk-free rate raises
\* InvalidParameter, whatever the state of the instance, and returns nothing.
C6_NegativeRateIsInvalidParameter ==
    (outcome # None /\ Get(outcome).op = "calculate_metrics"
        /\ Get(outcome).risk_free_rate < 0) =>
        /\ Get(outcome).raised = "InvalidParameter"
        /\ Get(outcome).metrics = None

\* The index pairs (2k-1, 2k) of the log that are a Buy then a Sell.
CountedPairs(trades) ==
    {k \in 1..(Len(trades) \div 2) :
        trades[2 * k - 1].type = "buy" /\ trades[2 * k].type = "sell"}

WinningPairs(trades) ==
    {k \in CountedPairs(trades) :
        (trades[2 * k].price - trades[2 * k - 1].price) * trades[2 * k - 1].shares > 0}

\* C7: total_trades counts the non-overlapping pairs that are (Buy, Sell),
\* win_rate is the winning pairs over total_trades, within [0, 1], and 0 when
\* no pair is counted.
C7_WinRatePairs ==
    MetricsReturned =>
        LET m == ReturnedMetrics
            total == Cardinality(CountedPairs(self_trades))
            wins == Cardinality(WinningPairs(self_trades))
        IN  /\ m.total_trades = total
            /\ m.win_rate.den > 0
            /\ 0 <= m.win_rate.num
            /\ m.win_rate.num <= m.win_rate.den
            /\ IF total = 0 THEN m.win_rate.num = 0
               ELSE m.win_rate.num * total = wins * m.win_rate.den

\* A winning round trip followed by an odd trailing Buy.
C7_Witness ==
    /\ MetricsReturned
    /\ Len(self_trades) = 3
    /\ ReturnedMetrics.total_trades = 1
    /\ ReturnedMetrics.win_rate = Frac(1, 1)

\* C8: generate_signals gives +1 at i exactly when i > 0, diff[i-1] <= 0 and
\* diff[i] > 0, -1 exactly when i > 0, diff[i-1] >= 0 and diff[i] < 0, and 0
\* otherwise; index 0 is always 0 (indices here start at 1).
C8_CrossoverSignals ==
    /\ CrossoverSignals(<<1, 2, 3, 2, 1>>, <<2, 2, 2, 2, 2>>) = <<0, 0, 1, 0, -1>>
    /\ (signals_out # None /\ Get(signals_out).raised = "none") =>
           LET s == Get(Get(signals_out).signals)
               d(i) == fast_ma[i] - slow_ma[i]
           IN  /\ Len(s) = Len(fast_ma)
               /\ \A i \in 1..Len(s) :
                      /\ s[i] \in {-1, 0, 1}
                      /\ s[i] = 1 <=> (i > 1 /\ d(i - 1) <= 0 /\ d(i) > 0)
                      /\ s[i] = -1 <=> (i > 1 /\ d(i - 1) >= 0 /\ d(i) < 0)
                      /\ i = 1 => s[i] = 0

\* A buy out of a zero difference and a sell in one series.
C8_Witness ==
    /\ signals_out # None
    /\ Get(signals_out).raised = "none"
    /\ fast_ma = <<2, 3, 2, 1>>
    /\ slow_ma = <<2, 2, 2, 2>>
    /\ Get(Get(signals_out).signals) = <<0, 1, 0, -1>>

NonDecreasing(values) == \A i \in 1..(Len(values) - 1) : values[i] <= values[i + 1]

\* C9: the max_drawdown calculate_metrics returns is <= 0, and is 0 exactly
\* when the portfolio-value series is non-decreasing.
C9_MaxDrawdown ==
    MetricsReturned =>
        LET dd == ReturnedMetrics.max_drawdown
        IN  /\ dd.den > 0
            /\ dd.num <= 0
            /\ dd.num = 0 <=> NonDecreasing(Get(self_portfolio_value))

\* Metrics of a run whose value fell below its peak.
C9_Witness ==
    /\ MetricsReturned
    /\ ReturnedMetrics.max_drawdown.num < 0
    /\ ~NonDecreasing(Get(self_portfolio_value))

\* C10: in the loop of run cash is never negative and shares are held only
\* while Long.
C10_AccountInvariant ==
    pc = "run" =>
        /\ cash >= 0
        /\ shares >= 0
        /\ position \in {0, 1}
        /\ position = 0 => shares = 0
        /\ \A i \in 1..Len(positions) : positions[i] \in {0, 1}

\* A buy followed by a sell back to Flat, shares back at 0.
C10_Witness ==
    /\ pc = "run"
    /\ t = 2
    /\ positions = <<1, 0>>
    /\ self_trades[1].shares >= 1
    /\ shares = 0

\* C11: a loop step whose signal is neither a Buy while Flat nor a Sell while
\* Long (a Buy while Long, a Sell while Flat, a Hold) leaves cash, shares,
\* position and the trade log as they were, and records just the position and
\* the portfolio value of that timestamp.
C11_OtherCombinationsAreNoOps ==
    [][LoopStep =>
          LET price == prices[t + 1]
              signal == signals[t + 1]
          IN  (~(signal = 1 /\ position = 0) /\ ~(signal = -1 /\ position = 1)) =>
                  /\ cash' = cash
                  /\ shares' = shares
                  /\ position' = position
                  /\ self_trades' = self_trades
                  /\ positions' = Append(positions, position)
                  /\ portfolio_values' =
                         Append(portfolio_values, cash + shares * price)]_vars

\* A Sell while Flat, then a buy, then a Buy while Long that the cash left
\* over could have paid for.
C11_Witness ==
    /\ pc = "run"
    /\ t = 3
    /\ signals = <<-1, 1, 1>>
    /\ positions = <<0, 1, 1>>
    /\ shares >= 1
    /\ cash >= prices[3]
    /\ Len(self_trades) = 1

====
